---- MODULE Spec2Model ----
(***************************************************************************)
(* A model of lsmlib: the engine facade (src/src/lsm.rs), the storage      *)
(* manager (src/src/storage.rs), the key directory (src/src/keydir.rs),    *)
(* the compaction worker (src/src/worker/compact.rs) and the merge         *)
(* iterator (src/src/disk/sstable.rs).  Keys and values are byte strings,  *)
(* modelled as sequences of small naturals; files are sequences of         *)
(* records and byte offsets are computed from the record sizes.            *)
(***************************************************************************)
EXTENDS Integers, Sequences, FiniteSets, TLC

VARIABLES
    config,       \* Lsm.config / DiskStorage.config / Compactor.config
    now,          \* the epoch-seconds clock read when a record is created
    up,           \* TRUE while the Lsm value (and its worker thread) exists
    downBy,       \* how the previous owner ended: "none", "crash", "panic"
    openRes,      \* result of the last Lsm::open_with_options
    epc,          \* position of the engine thread inside put / flush
    memtable,     \* Lsm.memtable: key -> record
    wal,          \* content of 000000000000.wal: sequence of records
    walSynced,    \* how many leading records of wal are known to be on disk
    dirty_bytes,  \* Lsm.dirty_bytes
    flushRes,     \* (next_sstable_id, size) returned by Store::set in flush
    lockfile,     \* TRUE when the file LOCK exists
    sstables,     \* DiskStorage.sstables: the registered run ids
    keydir,       \* HashmapKeydir.mapping: key -> KeydirEntry
    data,         \* NNN.data files: id -> sequence of records
    hint,         \* NNN.hint files: id -> sequence of hint records
    dataTmp,      \* NNN.data-tmp files
    hintTmp,      \* NNN.hint-tmp files
    wsstables,    \* Compactor.sstables: id -> size
    inbox,        \* the mpsc channel engine -> worker
    wpc,          \* position of the worker thread
    wwindow,      \* sstable_ids of the compaction in progress
    wpos,         \* CompactMergeIter: next record index of every input
    camIdx,       \* compact_and_merge: index in sstable_ids of the delete loop
    hist,         \* every record appended to the WAL so far, in order
    acked,        \* how many records of hist were put before the last WAL sync
    lost,         \* the indexes in hist of the records a crash dropped
    budget,       \* how many records this behaviour may write in all
    flushedInMerge,
                  \* the runs flushed since the merge in progress began
    crashes,      \* how many times the process has crashed
    failures,     \* how many I/O errors the storage manager has met
    walBad,       \* the indexes in wal of the records whose checksum fails
    dataBad,      \* the runs whose last record fails its checksum
    atDrop,       \* what get and list_keys answered when drop began
    kdPuts,       \* the entries put on each key since its last remove
    lastOp        \* the last API call and what it returned

vars == <<config, now, up, downBy, openRes, epc, memtable, wal, walSynced,
          dirty_bytes, flushRes, lockfile, sstables, keydir, data, hint,
          dataTmp, hintTmp, wsstables, inbox, wpc, wwindow, wpos, camIdx,
          hist, acked, lost, budget, flushedInMerge, crashes, failures,
          walBad, dataBad, atDrop, kdPuts, lastOp>>

engineVars == <<epc, memtable, wal, walSynced, dirty_bytes, flushRes>>
storeVars  == <<sstables, keydir, data, hint>>
tmpVars    == <<dataTmp, hintTmp>>
workerVars == <<wsstables, inbox, wpc, wwindow, wpos, camIdx>>
histVars   == <<now, hist, acked, lost, budget, flushedInMerge, atDrop, kdPuts>>
procVars   == <<config, up, downBy, openRes, lockfile, crashes, failures,
                 walBad, dataBad>>

----------------------------------------------------------------------------
(* Bounds of the model. *)

MaxWrites == 3
MaxWritesEngine == 4
MaxClock == 3
MaxCrashes == 1
MaxWritesShutdown == 2
MaxFailures == 1
MaxTornCrashes == 2
MaxRuns == 4

(* Inputs. *)
Keys == {<<1>>, <<2>>}
Values == {<<>>, <<1>>, <<2>>}
LongKey == <<1, 1>>
LongValue == <<1, 1>>
MaxLogLengths == {0, 51, 100}
MergeWindows == {2}
MergeRatios == {3}

Configs ==
    [max_log_length : MaxLogLengths, max_key_size : {1}, max_value_size : {1},
     merge_window : MergeWindows, merge_ratio : MergeRatios]

----------------------------------------------------------------------------
(* Maps with a finite domain. *)

EmptyMap == [x \in {} |-> 0]

MapPut(m, k, v) == [x \in DOMAIN m \cup {k} |-> IF x = k THEN v ELSE m[x]]

MapRemove(m, k) == [x \in DOMAIN m \ {k} |-> m[x]]

Max(S) == CHOOSE x \in S : \A y \in S : y <= x

(* Option<T>: None is the empty tuple, Some(v) is <<v>>. *)
NoneV == <<>>
Some(v) == <<v>>

(* Bytes that no caller wrote: what a read at an offset that is not the    *)
(* start of a record decodes to.                                           *)
Garbage == <<-1>>

----------------------------------------------------------------------------
(* Byte strings are ordered as Vec<u8>: lexicographically. *)

RECURSIVE KeyLess(_, _)
KeyLess(a, b) ==
    IF a = <<>> THEN b # <<>>
    ELSE IF b = <<>> THEN FALSE
    ELSE IF Head(a) # Head(b) THEN Head(a) < Head(b)
    ELSE KeyLess(Tail(a), Tail(b))

MinKey(S) == CHOOSE k \in S : \A j \in S : j = k \/ KeyLess(k, j)

(* The keys of a set in ascending order: BTreeMap iteration, Vec::sort. *)
RECURSIVE SortKeys(_)
SortKeys(S) ==
    IF S = {} THEN <<>>
    ELSE LET k == MinKey(S) IN <<k>> \o SortKeys(S \ {k})

----------------------------------------------------------------------------
(* The record codec. *)

HEADER_SZ == 24

DiskEntry(k, v, t) == [key |-> k, value |-> v, ts |-> t]

EntrySize(e) == HEADER_SZ + Len(e.key) + Len(e.value)

RECURSIVE FileSize(_)
FileSize(recs) ==
    IF recs = <<>> THEN 0 ELSE EntrySize(Head(recs)) + FileSize(Tail(recs))

(* The byte offset at which record i of a file starts. *)
OffsetOf(recs, i) == FileSize(SubSeq(recs, 1, i - 1))

(* SSTable::read: the record stored at a byte offset. *)
ReadAt(recs, off) ==
    IF FileSize(recs) <= off THEN NoneV
    ELSE IF \E i \in 1..Len(recs) : OffsetOf(recs, i) = off
         THEN Some(recs[CHOOSE i \in 1..Len(recs) : OffsetOf(recs, i) = off])
         ELSE Some(DiskEntry(Garbage, Garbage, 0))

(* HintEntry::from(&DiskEntry) for the record at index i of a run. *)
HintOf(recs, i) ==
    [key |-> recs[i].key, value_sz |-> Len(recs[i].value),
     offset |-> OffsetOf(recs, i), size |-> EntrySize(recs[i]),
     ts |-> recs[i].ts]

(* The hint records written beside the records news appended after old. *)
HintsFor(old, news) ==
    [i \in 1..Len(news) |-> HintOf(old \o news, Len(old) + i)]

(* KeydirEntry::try_from *)
KeydirEntry(id, off, sz, t) ==
    [file_id |-> id, offset |-> off, size |-> sz, timestamp |-> t]

----------------------------------------------------------------------------
(* The key directory. *)

(* KeydirPut with a strict comparison: an entry of equal timestamp is kept *)
KeydirPutStrict(kd, k, e) ==
    IF k \in DOMAIN kd
    THEN IF kd[k].timestamp < e.timestamp THEN MapPut(kd, k, e) ELSE kd
    ELSE MapPut(kd, k, e)

(* KeydirPut that always stores the entry given, whatever its timestamp *)
KeydirPutAlways(kd, k, e) == MapPut(kd, k, e)

(* HashmapKeydir::put *)
KeydirPut(kd, k, e) ==
    IF k \in DOMAIN kd
    THEN IF kd[k].timestamp <= e.timestamp THEN MapPut(kd, k, e) ELSE kd
    ELSE MapPut(kd, k, e)

KeydirRemove(kd, k) == MapRemove(kd, k)

(* build_keydir_from_hint: apply the hint records of file id, in order. *)
RECURSIVE ApplyHints(_, _, _)
ApplyHints(kd, id, hs) ==
    IF hs = <<>> THEN kd
    ELSE LET h == Head(hs)
             kd1 == IF h.value_sz # 0
                    THEN KeydirPut(kd, h.key,
                                   KeydirEntry(id, h.offset, h.size, h.ts))
                    ELSE KeydirRemove(kd, h.key)
         IN ApplyHints(kd1, id, Tail(hs))

(* build_keydir_from_sstable: scan the run itself. *)
RECURSIVE ApplyRecords(_, _, _, _)
ApplyRecords(kd, id, recs, i) ==
    IF i > Len(recs) THEN kd
    ELSE LET e == recs[i]
             kd1 == IF e.value = <<>>
                    THEN KeydirRemove(kd, e.key)
                    ELSE KeydirPut(kd, e.key,
                                   KeydirEntry(id, OffsetOf(recs, i),
                                               EntrySize(e), e.ts))
         IN ApplyRecords(kd1, id, recs, i + 1)

(* One run's contribution: its hint file when it exists, else the run. *)
BuildFrom(kd, id, dataFiles, hintFiles) ==
    IF id \in DOMAIN hintFiles
    THEN ApplyHints(kd, id, hintFiles[id])
    ELSE ApplyRecords(kd, id, dataFiles[id], 1)

(* build_keydir: every registered run in ascending id order. *)
RECURSIVE BuildKeydir(_, _, _, _)
BuildKeydir(kd, ids, dataFiles, hintFiles) ==
    IF ids = {} THEN kd
    ELSE LET id == CHOOSE x \in ids : \A y \in ids : x <= y
         IN BuildKeydir(BuildFrom(kd, id, dataFiles, hintFiles),
                        ids \ {id}, dataFiles, hintFiles)

----------------------------------------------------------------------------
(* The read path. *)

(* DiskStorage::get *)
StoreGet(k) ==
    IF k \in DOMAIN keydir
    THEN IF keydir[k].file_id \in sstables /\ keydir[k].file_id \in DOMAIN data
         THEN LET r == ReadAt(data[keydir[k].file_id], keydir[k].offset)
              IN IF r = NoneV THEN NoneV ELSE Some(r[1].value)
         ELSE Some(Garbage)
    ELSE NoneV

(* Lsm::get *)
Get(k) ==
    IF k \in DOMAIN memtable
    THEN IF memtable[k].value = <<>> THEN NoneV ELSE Some(memtable[k].value)
    ELSE StoreGet(k)

(* Contains without the look into the key directory. *)
ContainsMemtableOnly(k) == k \in DOMAIN memtable

(* Lsm::contains *)
Contains(k) == k \in DOMAIN memtable \/ k \in DOMAIN keydir


(* slice::binary_search of the standard library, as released up to 1.81:   *)
(* the index (from 1) of an element equal to x, or 0 for Err.  On a slice  *)
(* that is not sorted the result is whatever the loop arrives at.          *)
RECURSIVE BinarySearchClassic(_, _, _, _)
BinarySearchClassic(keys, x, left, right) ==
    IF left < right
    THEN LET mid == left + ((right - left) \div 2)
         IN IF KeyLess(keys[mid + 1], x)
            THEN BinarySearchClassic(keys, x, mid + 1, right)
            ELSE IF KeyLess(x, keys[mid + 1])
                 THEN BinarySearchClassic(keys, x, left, mid)
                 ELSE mid + 1
    ELSE 0

(* slice::binary_search as released from 1.82 on. *)
RECURSIVE BinarySearchBranchless(_, _, _, _)
BinarySearchBranchless(keys, x, base, size) ==
    IF size > 1
    THEN LET half == size \div 2
             mid == base + half
         IN BinarySearchBranchless(keys, x,
                IF KeyLess(x, keys[mid + 1]) THEN base ELSE mid, size - half)
    ELSE IF keys[base + 1] = x THEN base + 1 ELSE 0

SearchImpls == {"classic", "branchless"}

BinarySearch(keys, x, impl) ==
    IF keys = <<>> THEN 0
    ELSE IF impl = "classic"
         THEN BinarySearchClassic(keys, x, 0, Len(keys))
         ELSE BinarySearchBranchless(keys, x, 0, Len(keys))

RemoveAt(s, i) == SubSeq(s, 1, i - 1) \o SubSeq(s, i + 1, Len(s))

(* The overlay loop of list_keys over the memtable keys ks, in order. *)
RECURSIVE Overlay(_, _, _)
Overlay(keys, ks, impl) ==
    IF ks = <<>> THEN keys
    ELSE LET k == Head(ks)
             keys1 == IF memtable[k].value # <<>>
                      THEN Append(keys, k)
                      ELSE LET i == BinarySearch(keys, k, impl)
                           IN IF i # 0 THEN RemoveAt(keys, i) ELSE keys
         IN Overlay(keys1, Tail(ks), impl)

(* Lsm::list_keys *)
ListKeys(impl) ==
    Overlay(SortKeys(DOMAIN keydir), SortKeys(DOMAIN memtable), impl)

----------------------------------------------------------------------------
(* The storage lock is held by the worker throughout compact_and_merge. *)

CamStates == {"cam_rename_hint", "cam_remove", "cam_finish"}

LockFree == wpc \notin CamStates

NoFlush == [id |-> 0, size |-> 0]

Op(o, k, v, r) == [op |-> o, key |-> k, value |-> v, ret |-> r]

(* What the engine answers to get of every key and to list_keys. *)
NoSnapshot == <<>>

Snapshot ==
    [get |-> [k \in Keys |-> Get(k)],
     keys |-> [impl \in SearchImpls |-> ListKeys(impl)]]

----------------------------------------------------------------------------
(* The engine. *)

InitCore ==
    /\ config \in Configs
    /\ now = 1
    /\ up = TRUE
    /\ downBy = "none"
    /\ openRes = "ok"
    /\ epc = "idle"
    /\ memtable = EmptyMap
    /\ wal = <<>>
    /\ walSynced = 0
    /\ dirty_bytes = 0
    /\ flushRes = NoFlush
    /\ lockfile = TRUE
    /\ sstables = {}
    /\ keydir = EmptyMap
    /\ data = EmptyMap
    /\ hint = EmptyMap
    /\ dataTmp = EmptyMap
    /\ hintTmp = EmptyMap
    /\ wsstables = EmptyMap
    /\ inbox = <<>>
    /\ wpc = "maintain"
    /\ wwindow = <<>>
    /\ wpos = <<>>
    /\ camIdx = 0
    /\ hist = <<>>
    /\ acked = 0
    /\ lost = {}
    /\ flushedInMerge = {}
    /\ crashes = 0
    /\ failures = 0
    /\ walBad = {}
    /\ dataBad = {}
    /\ atDrop = NoSnapshot
    /\ kdPuts = [k \in Keys |-> <<>>]
    /\ lastOp = Op("open", <<>>, <<>>, "ok")

Init == InitCore /\ budget = MaxWrites

InitEngine == InitCore /\ budget = MaxWritesEngine

(* Lsm::put up to the flush: log_mutation, then the test of dirty_bytes.   *)
(* The record takes the clock's value, which may have advanced.            *)
PutBody(k, v, o) ==
    /\ Len(hist) < budget
    /\ \E t \in {now, now + 1} :
         /\ t <= MaxClock
         /\ now' = t
         /\ LET e == DiskEntry(k, v, t)
                dirty == dirty_bytes + EntrySize(e)
                flush == dirty > config.max_log_length
            IN /\ wal' = Append(wal, e)
               /\ dirty_bytes' = dirty
               /\ memtable' = MapPut(memtable, k, e)
               /\ hist' = Append(hist, e)
               /\ epc' = IF flush THEN "flush_sync" ELSE "idle"
               /\ lastOp' = Op(o, k, v, IF flush THEN "pending" ELSE "ok")
    /\ UNCHANGED <<walSynced, flushRes, acked, lost, budget, atDrop,
                   kdPuts, flushedInMerge>>
    /\ UNCHANGED <<storeVars, tmpVars, workerVars, procVars>>

Put(k, v) ==
    /\ up
    /\ epc = "idle"
    /\ PutBody(k, v, "put")

(* Lsm::delete *)
Delete(k) ==
    /\ up
    /\ epc = "idle"
    /\ k \in DOMAIN memtable \/ LockFree
    /\ IF ~Contains(k)
       THEN /\ lastOp' = Op("delete", k, <<>>, "ok")
            /\ UNCHANGED <<histVars, engineVars, storeVars, tmpVars,
                           workerVars, procVars>>
       ELSE PutBody(k, <<>>, "delete")

(* The first step of flush without the fsync of the WAL. *)
FlushNoSync ==
    /\ up
    /\ epc = "flush_sync"
    /\ acked' = Len(hist) - 1
    /\ epc' = "flush_set"
    /\ UNCHANGED <<memtable, wal, walSynced, dirty_bytes, flushRes, now, hist,
                   lost, budget, atDrop, kdPuts, flushedInMerge, lastOp>>
    /\ UNCHANGED <<storeVars, tmpVars, workerVars, procVars>>

(* Lsm::flush, first statement: self.log.sync() *)
FlushSync ==
    /\ up
    /\ epc = "flush_sync"
    /\ walSynced' = Len(wal)
    /\ acked' = Len(hist) - 1
    /\ epc' = "flush_set"
    /\ UNCHANGED <<memtable, wal, dirty_bytes, flushRes, now, hist, lost,
                   budget, atDrop, kdPuts, flushedInMerge, lastOp>>
    /\ UNCHANGED <<storeVars, tmpVars, workerVars, procVars>>

(* The memtable in key order, as Store::set iterates it. *)
MemtableRecords ==
    LET ks == SortKeys(DOMAIN memtable)
    IN [i \in 1..Len(ks) |-> memtable[ks[i]]]

NextSstableId == IF sstables = {} THEN 1 ELSE Max(sstables) + 1

FileOrEmpty(files, id) == IF id \in DOMAIN files THEN files[id] ELSE <<>>

(* Lsm::flush: take the memtable and DiskStorage::set under the write lock *)
FlushSet ==
    /\ up
    /\ epc = "flush_set"
    /\ LockFree
    /\ LET id == NextSstableId
           old == FileOrEmpty(data, id)
           recs == MemtableRecords
           all == old \o recs
       IN /\ data' = MapPut(data, id, all)
          /\ hint' = MapPut(hint, id,
                            FileOrEmpty(hint, id) \o HintsFor(old, recs))
          /\ keydir' = ApplyRecords(keydir, id, all, Len(old) + 1)
          /\ sstables' = sstables \cup {id}
          /\ flushRes' = [id |-> id, size |-> FileSize(all)]
          /\ flushedInMerge' = IF wpc = "merge"
                               THEN flushedInMerge \cup {id}
                               ELSE flushedInMerge
    /\ memtable' = EmptyMap
    /\ epc' = "flush_send"
    /\ UNCHANGED <<wal, walSynced, dirty_bytes, now, hist, acked, lost,
                   budget,
                   atDrop, kdPuts, lastOp>>
    /\ UNCHANGED <<tmpVars, workerVars, procVars>>

(* The memtable left as std::mem::take left it. *)
MemtableTaken == EmptyMap

(* What Lsm::flush puts back as the memtable when DiskStorage::set fails. *)
MemtableAfterFailedSet == memtable

(* Lsm::flush when DiskStorage::set returns an error: the run file and its *)
(* hint file were opened (created when new), the first n records were      *)
(* written, the hint records and the key-directory updates of the first m  *)
(* were done, and the run was not registered.  flush puts the memtable     *)
(* back and returns the error; put returns it.                             *)
FlushSetFail ==
    /\ up
    /\ epc = "flush_set"
    /\ LockFree
    /\ failures < MaxFailures
    /\ failures' = failures + 1
    /\ LET id == NextSstableId
           old == FileOrEmpty(data, id)
           recs == MemtableRecords
       IN \E n \in 0..Len(recs) :
            \E m \in {x \in {n - 1, n} : x >= 0} :
               LET all == old \o SubSeq(recs, 1, n)
                   idx == old \o SubSeq(recs, 1, m)
               IN /\ data' = MapPut(data, id, all)
                  /\ hint' = MapPut(hint, id,
                                    FileOrEmpty(hint, id)
                                        \o HintsFor(old, SubSeq(recs, 1, m)))
                  /\ keydir' = ApplyRecords(keydir, id, idx, Len(old) + 1)
    /\ memtable' = MemtableAfterFailedSet
    /\ epc' = "idle"
    /\ lastOp' = [lastOp EXCEPT !.ret = "Err"]
    /\ UNCHANGED <<wal, walSynced, dirty_bytes, flushRes, sstables, histVars>>
    /\ UNCHANGED <<tmpVars, workerVars>>
    /\ UNCHANGED <<config, up, downBy, openRes, lockfile, crashes, walBad,
                   dataBad>>

(* The in-memory state of a process that is gone. *)
ProcessGone ==
    /\ up' = FALSE
    /\ epc' = "down"
    /\ memtable' = EmptyMap
    /\ dirty_bytes' = 0
    /\ flushRes' = NoFlush
    /\ sstables' = {}
    /\ keydir' = EmptyMap
    /\ wsstables' = EmptyMap
    /\ inbox' = <<>>
    /\ wpc' = "down"
    /\ wwindow' = <<>>
    /\ wpos' = <<>>
    /\ camIdx' = 0
    /\ flushedInMerge' = {}

(* Lsm::flush: the send of NewSSTable; a send on a channel whose receiver  *)
(* is gone fails and flush panics, which unwinds the engine thread: Drop   *)
(* for Lsm, then the last handle to the store and with it the Lockfile.    *)
FlushSend ==
    /\ up
    /\ epc = "flush_send"
    /\ IF wpc \in {"dead", "stopped"}
       THEN /\ ProcessGone
            /\ downBy' = "panic"
            /\ lockfile' = FALSE
            /\ walSynced' = Len(wal)
            /\ lastOp' = [lastOp EXCEPT !.ret = "panic"]
            /\ UNCHANGED <<wal, config, openRes, crashes, failures, walBad,
                           dataBad,
                           data, hint>>
       ELSE /\ inbox' = Append(inbox, [type |-> "NewSSTable",
                                       id |-> flushRes.id,
                                       size |-> flushRes.size])
            /\ epc' = "flush_trunc"
            /\ UNCHANGED <<memtable, wal, walSynced, dirty_bytes, flushRes,
                           lastOp, storeVars, procVars, wsstables, wpc,
                           wwindow, wpos, camIdx, flushedInMerge>>
    /\ UNCHANGED <<now, hist, acked, lost, budget, atDrop, kdPuts, tmpVars>>

(* Lsm::flush: truncate the WAL, reset dirty_bytes; put returns Ok. *)
FlushTruncate ==
    /\ up
    /\ epc = "flush_trunc"
    /\ wal' = <<>>
    /\ walSynced' = 0
    /\ dirty_bytes' = 0
    /\ epc' = "idle"
    /\ lastOp' = [lastOp EXCEPT !.ret = "ok"]
    /\ UNCHANGED <<memtable, flushRes, histVars>>
    /\ UNCHANGED <<storeVars, tmpVars, workerVars, procVars>>

(* Lsm::flush when one of its last two statements returns an error: the    *)
(* truncation of the WAL (the WAL is as it was), or the open and fsync of  *)
(* the directory (the WAL is already empty).  flush returns at the `?`     *)
(* without touching dirty_bytes or the memtable; put returns the error.    *)
FlushTruncateFail ==
    /\ up
    /\ epc = "flush_trunc"
    /\ failures < MaxFailures
    /\ failures' = failures + 1
    /\ \E truncated \in BOOLEAN :
         /\ wal' = IF truncated THEN <<>> ELSE wal
         /\ walSynced' = IF truncated THEN 0 ELSE walSynced
    /\ epc' = "idle"
    /\ lastOp' = [lastOp EXCEPT !.ret = "Err"]
    /\ UNCHANGED <<memtable, dirty_bytes, flushRes, histVars>>
    /\ UNCHANGED <<storeVars, tmpVars, workerVars>>
    /\ UNCHANGED <<config, up, downBy, openRes, lockfile, crashes, walBad,
                   dataBad>>

FlushStep == FlushSync \/ FlushSet \/ FlushSend \/ FlushTruncate

NextEngine ==
    \/ \E k \in Keys, v \in Values : Put(k, v)
    \/ \E k \in Keys : Delete(k)
    \/ FlushStep

SpecEngine == InitEngine /\ [][NextEngine]_vars

NextLimits ==
    \/ \E k \in Keys \cup {LongKey}, v \in Values \cup {LongValue} : Put(k, v)
    \/ FlushStep

SpecLimits == Init /\ [][NextLimits]_vars

NextFail == NextEngine \/ FlushSetFail

SpecFail == Init /\ [][NextFail]_vars

(* The engine alone, where the end of a flush may fail as well. *)
NextFlushFail == NextFail \/ FlushTruncateFail

SpecFlushFail == Init /\ [][NextFlushFail]_vars

----------------------------------------------------------------------------
(* The compaction merge iterator over the runs ids, input i being at       *)
(* record pos[i] of its file.                                              *)

Peek(ids, pos, i) ==
    IF pos[i] <= Len(data[ids[i]]) THEN Some(data[ids[i]][pos[i]]) ELSE NoneV

(* The loop of CompactMergeIter::next from input i on, top being the index *)
(* of the input that holds the smallest key seen so far (0: none).  An     *)
(* input whose key equals top's key with a larger timestamp replaces top   *)
(* and top's input is advanced.  Otherwise the input itself is to be       *)
(* advanced, by iter.borrow_mut() inside the scope of the borrow_mut()     *)
(* that peeked it: a second mutable borrow of the same RefCell, which      *)
(* panics.                                                                 *)
RECURSIVE MergeScan(_, _, _, _)
MergeScan(ids, pos, i, top) ==
    IF i > Len(ids)
    THEN [kind |-> IF top = 0 THEN "done" ELSE "yield", top |-> top, pos |-> pos]
    ELSE LET p == Peek(ids, pos, i)
         IN IF p = NoneV THEN MergeScan(ids, pos, i + 1, top)
            ELSE IF top = 0 THEN MergeScan(ids, pos, i + 1, i)
            ELSE LET e == p[1]
                     t == data[ids[top]][pos[top]]
                 IN IF KeyLess(e.key, t.key)
                    THEN MergeScan(ids, pos, i + 1, i)
                    ELSE IF e.key = t.key
                         THEN IF t.ts < e.ts
                              THEN MergeScan(ids,
                                             [pos EXCEPT ![top] = @ + 1],
                                             i + 1, i)
                              ELSE [kind |-> "panic", top |-> top, pos |-> pos]
                         ELSE MergeScan(ids, pos, i + 1, top)

(* CompactMergeIter::next *)
MergeNext(ids, pos) == MergeScan(ids, pos, 1, 0)

----------------------------------------------------------------------------
(* The compaction worker. *)

(* The ids of a set in ascending order: BTreeMap<u64, u64> iteration. *)
RECURSIVE SortIds(_)
SortIds(S) ==
    IF S = {} THEN <<>>
    ELSE LET m == CHOOSE x \in S : \A y \in S : x <= y
         IN <<m>> \o SortIds(S \ {m})

SeqMax(s) == Max({s[i] : i \in 1..Len(s)})

MergeWindow == IF config.merge_window > 2 THEN config.merge_window ELSE 2

(* The test of a window with a comparison that is not strict. *)
WindowOkLoose(ids, s) ==
    \A j \in (s + 1)..(s + MergeWindow - 1) :
        wsstables[ids[j]] * config.merge_ratio >= wsstables[ids[s]]

(* Whether the window of MergeWindow runs starting at index s qualifies. *)
WindowOk(ids, s) ==
    \A j \in (s + 1)..(s + MergeWindow - 1) :
        wsstables[ids[j]] * config.merge_ratio > wsstables[ids[s]]

(* sstable_maintenance: the run to compact, or <<>>. *)
RunToCompact ==
    LET ids == SortIds(DOMAIN wsstables)
        starts == {s \in 1..(Len(ids) - MergeWindow + 1) : WindowOk(ids, s)}
    IN IF Len(ids) < MergeWindow \/ starts = {} THEN <<>>
       ELSE LET s == CHOOSE x \in starts : \A y \in starts : x <= y
            IN SubSeq(ids, s, s + MergeWindow - 1)

(* A tick that goes on to maintenance after every message, Stop included. *)
WorkerRecvThenMaintain ==
    /\ up
    /\ wpc = "recv"
    /\ inbox # <<>>
    /\ inbox' = Tail(inbox)
    /\ LET msg == Head(inbox)
       IN /\ wsstables' = IF msg.type = "NewSSTable"
                          THEN MapPut(wsstables, msg.id, msg.size)
                          ELSE wsstables
          /\ wpc' = "maintain"
    /\ UNCHANGED <<wwindow, wpos, camIdx, histVars, lastOp>>
    /\ UNCHANGED <<engineVars, storeVars, tmpVars, procVars>>

(* Compactor::tick: recv and handle_message *)
WorkerRecv ==
    /\ up
    /\ wpc = "recv"
    /\ inbox # <<>>
    /\ inbox' = Tail(inbox)
    /\ LET msg == Head(inbox)
       IN /\ wsstables' = IF msg.type = "NewSSTable"
                          THEN MapPut(wsstables, msg.id, msg.size)
                          ELSE wsstables
          /\ wpc' = IF msg.type = "Stop" THEN "stopped" ELSE "maintain"
    /\ UNCHANGED <<wwindow, wpos, camIdx, histVars, lastOp>>
    /\ UNCHANGED <<engineVars, storeVars, tmpVars, procVars>>

(* sstable_maintenance and compact_sstable_run up to the merge loop: the   *)
(* early return on an existing data tmp file, the opening of the inputs    *)
(* and the creation (in append mode) of the two tmp files.                 *)
WorkerMaintain ==
    /\ up
    /\ wpc = "maintain"
    /\ LET run == RunToCompact
       IN IF run = <<>>
             \/ SeqMax(run) \in DOMAIN dataTmp
             \/ \E i \in 1..Len(run) : run[i] \notin DOMAIN data
          THEN /\ wpc' = "recv"
               /\ UNCHANGED <<wwindow, wpos, tmpVars, flushedInMerge>>
          ELSE /\ wpc' = "merge"
               /\ flushedInMerge' = {}
               /\ wwindow' = run
               /\ wpos' = [i \in 1..Len(run) |-> 1]
               /\ dataTmp' = MapPut(dataTmp, SeqMax(run), <<>>)
               /\ hintTmp' = MapPut(hintTmp, SeqMax(run),
                                    FileOrEmpty(hintTmp, SeqMax(run)))
    /\ UNCHANGED <<wsstables, inbox, camIdx, now, hist, acked, lost,
                   budget, atDrop, kdPuts,
                   lastOp>>
    /\ UNCHANGED <<engineVars, storeVars, procVars>>

(* The merge loop with the tombstones left out of the merged run. *)
WorkerMergeStepNoTombstones ==
    /\ up
    /\ wpc = "merge"
    /\ LET r == MergeNext(wwindow, wpos)
           w == SeqMax(wwindow)
       IN IF r.kind = "panic"
          THEN /\ wpc' = "dead"
               /\ UNCHANGED <<wpos, tmpVars>>
          ELSE IF r.kind = "done"
          THEN /\ wpc' = "cam_rename_data"
               /\ UNCHANGED <<wpos, tmpVars>>
          ELSE LET e == data[wwindow[r.top]][r.pos[r.top]]
               IN /\ wpc' = "merge"
                  /\ wpos' = [r.pos EXCEPT ![r.top] = @ + 1]
                  /\ IF e.value = <<>>
                     THEN UNCHANGED tmpVars
                     ELSE /\ dataTmp' = [dataTmp EXCEPT ![w] = Append(@, e)]
                          /\ hintTmp' = [hintTmp EXCEPT
                                   ![w] = @ \o HintsFor(dataTmp[w], <<e>>)]
    /\ UNCHANGED <<wsstables, inbox, wwindow, camIdx>>
    /\ UNCHANGED <<histVars, lastOp, engineVars, storeVars, procVars>>

(* One round of the merge loop of compact_sstable_run: the next merged     *)
(* record goes to the data tmp file and its hint to the hint tmp file;     *)
(* when the iterator ends the data tmp file is synced.  A panic of the     *)
(* iterator ends the worker thread.                                        *)
WorkerMergeStep ==
    /\ up
    /\ wpc = "merge"
    /\ LET r == MergeNext(wwindow, wpos)
           w == SeqMax(wwindow)
       IN IF r.kind = "panic"
          THEN /\ wpc' = "dead"
               /\ UNCHANGED <<wpos, tmpVars>>
          ELSE IF r.kind = "done"
          THEN /\ wpc' = "cam_rename_data"
               /\ UNCHANGED <<wpos, tmpVars>>
          ELSE LET e == data[wwindow[r.top]][r.pos[r.top]]
               IN /\ wpc' = "merge"
                  /\ wpos' = [r.pos EXCEPT ![r.top] = @ + 1]
                  /\ dataTmp' = [dataTmp EXCEPT ![w] = Append(@, e)]
                  /\ hintTmp' = [hintTmp EXCEPT
                                   ![w] = @ \o HintsFor(dataTmp[w], <<e>>)]
    /\ UNCHANGED <<wsstables, inbox, wwindow, camIdx>>
    /\ UNCHANGED <<histVars, lastOp, engineVars, storeVars, procVars>>

(* compact_and_merge: the write lock is taken and the data tmp file is     *)
(* renamed over the winner's run.                                          *)
CamRenameData ==
    /\ up
    /\ wpc = "cam_rename_data"
    /\ LET w == SeqMax(wwindow)
       IN /\ data' = MapPut(data, w, dataTmp[w])
          /\ dataTmp' = MapRemove(dataTmp, w)
    /\ wpc' = "cam_rename_hint"
    /\ UNCHANGED <<sstables, keydir, hint, hintTmp, wsstables, inbox, wwindow,
                   wpos, camIdx>>
    /\ UNCHANGED <<histVars, lastOp, engineVars, procVars>>

(* compact_and_merge: the hint tmp file is renamed over the winner's hint. *)
CamRenameHint ==
    /\ up
    /\ wpc = "cam_rename_hint"
    /\ LET w == SeqMax(wwindow)
       IN /\ hint' = MapPut(hint, w, hintTmp[w])
          /\ hintTmp' = MapRemove(hintTmp, w)
    /\ wpc' = "cam_remove"
    /\ camIdx' = 1
    /\ UNCHANGED <<sstables, keydir, data, dataTmp, wsstables, inbox, wwindow,
                   wpos>>
    /\ UNCHANGED <<histVars, lastOp, engineVars, procVars>>

(* compact_and_merge: one round of the loop that deletes the inputs: the   *)
(* winner is skipped; the run's file is removed, the run is dropped from   *)
(* the registered runs, and its hint file is removed when it exists.       *)
CamRemove ==
    /\ up
    /\ wpc = "cam_remove"
    /\ LET id == wwindow[camIdx]
           more == camIdx < Len(wwindow)
       IN IF id = SeqMax(wwindow)
          THEN /\ wpc' = IF more THEN "cam_remove" ELSE "cam_finish"
               /\ camIdx' = camIdx + 1
               /\ UNCHANGED <<sstables, data, hint>>
          ELSE IF id \notin DOMAIN data
          THEN /\ wpc' = "recv"
               /\ camIdx' = 0
               /\ UNCHANGED <<sstables, data, hint>>
          ELSE IF id \notin sstables
          THEN /\ wpc' = "dead"
               /\ camIdx' = 0
               /\ data' = MapRemove(data, id)
               /\ UNCHANGED <<sstables, hint>>
          ELSE /\ wpc' = IF more THEN "cam_remove" ELSE "cam_finish"
               /\ camIdx' = camIdx + 1
               /\ data' = MapRemove(data, id)
               /\ sstables' = sstables \ {id}
               /\ hint' = MapRemove(hint, id)
    /\ UNCHANGED <<keydir, tmpVars, wsstables, inbox, wwindow, wpos>>
    /\ UNCHANGED <<histVars, lastOp, engineVars, procVars>>

(* The worker's map after a successful compaction of run. *)
AfterCompaction(ws, run, size) ==
    LET w == SeqMax(run)
        gone == {run[i] : i \in 1..Len(run)} \ {w}
    IN [id \in (DOMAIN ws \cup {w}) \ gone |-> IF id = w THEN size ELSE ws[id]]

(* compact_and_merge: the winner is registered afresh and the key          *)
(* directory is updated from its hint file (or from the run); the lock is  *)
(* released and compact_sstable_run updates the worker's own map.          *)
CamFinish ==
    /\ up
    /\ wpc = "cam_finish"
    /\ LET w == SeqMax(wwindow)
       IN /\ sstables' = sstables \cup {w}
          /\ keydir' = BuildFrom(keydir, w, data, hint)
          /\ wsstables' = AfterCompaction(wsstables, wwindow, FileSize(data[w]))
    /\ wpc' = "recv"
    /\ wwindow' = <<>>
    /\ wpos' = <<>>
    /\ camIdx' = 0
    /\ flushedInMerge' = {}
    /\ UNCHANGED <<data, hint, tmpVars, inbox>>
    /\ UNCHANGED <<now, hist, acked, lost, budget, atDrop, kdPuts, lastOp,
                   engineVars,
                   procVars>>

WorkerStep ==
    \/ WorkerRecv
    \/ WorkerMaintain
    \/ WorkerMergeStep
    \/ CamRenameData
    \/ CamRenameHint
    \/ CamRemove
    \/ CamFinish

Next == NextEngine \/ WorkerStep

Spec == Init /\ [][Next]_vars

----------------------------------------------------------------------------
(* Crash and reopen. *)

(* A replay that keeps the first record of a key instead of the last. *)
RECURSIVE ReplayFirstWins(_, _)
ReplayFirstWins(m, recs) ==
    IF recs = <<>> THEN m
    ELSE ReplayFirstWins(IF Head(recs).key \in DOMAIN m THEN m
                         ELSE MapPut(m, Head(recs).key, Head(recs)),
                         Tail(recs))

(* Lsm::build_memtable: the replay of the WAL records, in file order. *)
RECURSIVE Replay(_, _)
Replay(m, recs) ==
    IF recs = <<>> THEN m
    ELSE Replay(MapPut(m, Head(recs).key, Head(recs)), Tail(recs))

(* build_memtable with every record counted that passes its checksum,     *)
(* the failing ones skipped.                                               *)
RecoveredLenSkipping(recs, bad) == Len(recs) - Cardinality(bad)

(* Lsm::build_memtable: the number of records read before the loop breaks  *)
(* at the first record whose checksum fails.                               *)
RecoveredLen(recs, bad) ==
    IF \E i \in 1..Len(recs) : i \in bad
    THEN (CHOOSE i \in 1..Len(recs) :
              i \in bad /\ \A j \in 1..(i - 1) : j \notin bad) - 1
    ELSE Len(recs)

(* The records of hist that no crash dropped, and the last n of a set. *)
Surviving == (1..Len(hist)) \ lost

RECURSIVE LastN(_, _)
LastN(S, n) ==
    IF n = 0 \/ S = {} THEN {} ELSE {Max(S)} \cup LastN(S \ {Max(S)}, n - 1)

(* The worker is inside compact_sstable_run. *)
Compacting == {"merge", "cam_rename_data", "cam_rename_hint", "cam_remove",
               "cam_finish"}

(* The process dies without running any destructor: what is in memory is   *)
(* lost, every file stays as it is (LOCK and the tmp files included),      *)
(* except that WAL records written after the last sync may be lost.        *)
Crash ==
    /\ up
    /\ crashes < MaxCrashes
    /\ crashes' = crashes + 1
    /\ ProcessGone
    /\ downBy' = IF wpc \in Compacting THEN "crash_compacting" ELSE "crash"
    /\ \E n \in walSynced..Len(wal) :
         /\ wal' = SubSeq(wal, 1, n)
         /\ walSynced' = n
         /\ lost' = lost \cup LastN(Surviving, Len(wal) - n)
    /\ lastOp' = Op("crash", <<>>, <<>>, "ok")
    /\ UNCHANGED <<config, openRes, lockfile, data, hint, tmpVars,
                   now, hist, acked, budget, atDrop, kdPuts, failures, walBad, dataBad>>

(* Someone removes the LOCK file of a store that no process holds. *)
RemoveLock ==
    /\ ~up
    /\ lockfile
    /\ lockfile' = FALSE
    /\ UNCHANGED <<config, up, downBy, openRes, crashes, failures, walBad,
                   dataBad,
                   histVars, lastOp>>
    /\ UNCHANGED <<engineVars, storeVars, tmpVars, workerVars>>

(* Lsm::open_with_options: Store::open_with_options (the lock file, the    *)
(* registration of every *.data file, build_keydir), build_memtable, the   *)
(* worker with the store's list of runs, and the HeartBeat round trip,     *)
(* after which the worker is about to evaluate maintenance.                *)
Open ==
    /\ ~up
    /\ IF lockfile
       THEN /\ openRes' = "AlreadyLocked"
            /\ lastOp' = Op("open", <<>>, <<>>, "AlreadyLocked")
            /\ UNCHANGED <<up, lockfile, engineVars, sstables, keydir,
                           workerVars, walBad, atDrop, kdPuts>>
       ELSE /\ openRes' = "ok"
            /\ lastOp' = Op("open", <<>>, <<>>, "ok")
            /\ up' = TRUE
            /\ lockfile' = TRUE
            /\ sstables' = DOMAIN data
            /\ keydir' = BuildKeydir(EmptyMap, DOMAIN data, data, hint)
            /\ LET n == RecoveredLen(wal, walBad)
               IN /\ memtable' = Replay(EmptyMap, SubSeq(wal, 1, n))
                  /\ dirty_bytes' = FileSize(SubSeq(wal, 1, n))
                  /\ wal' = SubSeq(wal, 1, n)
                  /\ walSynced' = n
                  /\ walBad' = {}
            /\ epc' = "idle"
            /\ wsstables' = [id \in DOMAIN data |-> FileSize(data[id])]
            /\ wpc' = "maintain"
            /\ atDrop' = NoSnapshot
            /\ UNCHANGED kdPuts
            /\ UNCHANGED <<flushRes, inbox, wwindow, wpos, camIdx>>
    /\ UNCHANGED <<config, downBy, crashes, failures, data, hint, tmpVars,
                   dataBad, now, hist, acked, lost, budget, flushedInMerge>>

(* A crash that leaves a torn WAL tail: of the records written after the   *)
(* last sync the first n - walSynced are in the file, and any of them may  *)
(* fail its checksum.  What recovery will discard is lost.                 *)
CrashTorn ==
    /\ up
    /\ crashes < MaxTornCrashes
    /\ crashes' = crashes + 1
    /\ ProcessGone
    /\ downBy' = "crash"
    /\ \E n \in walSynced..Len(wal) :
         \E bad \in SUBSET ((walSynced + 1)..n) :
            /\ wal' = SubSeq(wal, 1, n)
            /\ walSynced' = n
            /\ walBad' = bad
            /\ lost' = lost \cup
                   LastN(Surviving,
                         Len(wal) - RecoveredLen(SubSeq(wal, 1, n), bad))
    /\ lastOp' = Op("crash", <<>>, <<>>, "ok")
    /\ UNCHANGED <<config, openRes, lockfile, data, hint, tmpVars,
                   now, hist, acked, budget, atDrop, kdPuts, failures, dataBad>>

(* A crash inside DiskStorage::set, before the run is synced: the first n  *)
(* records of the memtable are in the new run's file, the first m hint     *)
(* records in its hint file, and the last record of the run may be torn    *)
(* (it fails its checksum).  The WAL was synced by the flush before.       *)
CrashInSet ==
    /\ up
    /\ epc = "flush_set"
    /\ LockFree
    /\ crashes < MaxCrashes
    /\ crashes' = crashes + 1
    /\ NextSstableId \notin DOMAIN data
    /\ LET id == NextSstableId
           recs == MemtableRecords
       IN \E n \in 1..Len(recs) :
            \E m \in 0..n :
               \E torn \in BOOLEAN :
                  /\ data' = MapPut(data, id, SubSeq(recs, 1, n))
                  /\ hint' = MapPut(hint, id,
                                    HintsFor(<<>>, SubSeq(recs, 1, m)))
                  /\ dataBad' = IF torn THEN dataBad \cup {id} ELSE dataBad
    /\ ProcessGone
    /\ downBy' = "crash"
    /\ lastOp' = Op("crash", <<>>, <<>>, "ok")
    /\ UNCHANGED <<wal, walSynced, config, openRes, lockfile, tmpVars, now,
                   hist,
                   acked, lost, budget, atDrop, kdPuts, failures, walBad>>

NextTornRun == NextEngine \/ CrashInSet \/ RemoveLock \/ Open

SpecTornRun == Init /\ [][NextTornRun]_vars

NextCrash == Next \/ Crash \/ RemoveLock \/ Open

NextRecover == NextEngine \/ CrashTorn \/ RemoveLock \/ Open

SpecRecover == Init /\ [][NextRecover]_vars

SpecCrash == Init /\ [][NextCrash]_vars

----------------------------------------------------------------------------
(* Clean shutdown. *)

(* Drop for Lsm, the send: when the worker thread has ended by a panic the *)
(* channel is broken and drop returns at once; the engine's handle to the  *)
(* store is then the last one, and the Lockfile goes with the store.       *)
(* Otherwise Stop is queued behind the messages already in the channel.    *)
DropSend ==
    /\ up
    /\ epc = "idle"
    /\ IF wpc = "dead"
       THEN /\ ProcessGone
            /\ downBy' = "drop"
            /\ lockfile' = FALSE
            /\ lastOp' = Op("drop", <<>>, <<>>, "ok")
            /\ UNCHANGED <<wal, walSynced, config, openRes, crashes, failures,
                           walBad, dataBad, data, hint>>
       ELSE /\ inbox' = Append(inbox, [type |-> "Stop", id |-> 0, size |-> 0])
            /\ epc' = "drop_wait"
            /\ UNCHANGED <<memtable, wal, walSynced, dirty_bytes, flushRes,
                           lastOp, storeVars, procVars, wsstables, wpc,
                           wwindow, wpos, camIdx, flushedInMerge>>
    /\ atDrop' = Snapshot
    /\ UNCHANGED kdPuts
    /\ UNCHANGED <<now, hist, acked, lost, budget, tmpVars>>

(* Drop for Lsm, the wait: the reply channel closes when the worker drops  *)
(* the sender that came with Stop, or when the worker's receiver is gone.  *)
(* Then the fields of Lsm are dropped; the store, and with it the          *)
(* Lockfile, is dropped by whoever holds the last handle to it.            *)
DropReturn ==
    /\ up
    /\ epc = "drop_wait"
    /\ wpc \in {"stopped", "dead", "exited"}
    /\ downBy' = "drop"
    /\ lastOp' = Op("drop", <<>>, <<>>, "ok")
    /\ IF wpc = "stopped"
       THEN /\ up' = FALSE
            /\ epc' = "down"
            /\ memtable' = EmptyMap
            /\ dirty_bytes' = 0
            /\ flushRes' = NoFlush
            /\ UNCHANGED <<lockfile, sstables, keydir, workerVars,
                           flushedInMerge>>
       ELSE /\ ProcessGone
            /\ lockfile' = FALSE
    /\ UNCHANGED <<wal, walSynced, config, openRes, crashes, failures,
                   walBad, dataBad, data, hint>>
    /\ UNCHANGED <<now, hist, acked, lost, budget, atDrop, kdPuts, tmpVars>>

(* Compactor::run returns after Stop and the thread drops the Compactor:   *)
(* its receiver and its handle to the store.                               *)
WorkerExit ==
    /\ wpc = "stopped"
    /\ wsstables' = EmptyMap
    /\ inbox' = <<>>
    /\ wwindow' = <<>>
    /\ wpos' = <<>>
    /\ camIdx' = 0
    /\ IF up
       THEN /\ wpc' = "exited"
            /\ UNCHANGED <<lockfile, sstables, keydir>>
       ELSE /\ wpc' = "down"
            /\ lockfile' = FALSE
            /\ sstables' = {}
            /\ keydir' = EmptyMap
    /\ UNCHANGED <<config, up, downBy, openRes, crashes, failures, walBad,
                   dataBad,
                   data, hint>>
    /\ UNCHANGED <<histVars, lastOp, engineVars, tmpVars>>

(* Lsm::open_with_options on the directory of an engine that is open:      *)
(* Lockfile::lock finds LOCK and the open fails.                           *)
OpenSecond ==
    /\ up
    /\ lockfile
    /\ openRes' = "AlreadyLocked"
    /\ lastOp' = Op("open", <<>>, <<>>, "AlreadyLocked")
    /\ UNCHANGED <<config, up, downBy, lockfile, crashes, failures, walBad,
                   dataBad,
                   histVars>>
    /\ UNCHANGED <<engineVars, storeVars, tmpVars, workerVars>>

NextShutdown ==
    Next \/ DropSend \/ DropReturn \/ WorkerExit \/ OpenSecond \/ Open

InitShutdown == InitCore /\ budget = MaxWritesShutdown

SpecShutdown == InitShutdown /\ [][NextShutdown]_vars

(* The worker thread and the thread inside drop are scheduled. *)
FairShutdown ==
    SpecShutdown /\ WF_vars(WorkerStep) /\ WF_vars(DropReturn)

----------------------------------------------------------------------------
(* The worker on a directory that holds runs when it is opened. *)

(* The runs a flush can have written, by shape; every record of run id has *)
(* the timestamp id.                                                       *)
RunShapes == {"tomb1", "val1", "val2", "tomb1val2", "val1val2"}

RunOf(id, shape) ==
    CASE shape = "tomb1" -> <<DiskEntry(<<1>>, <<>>, id)>>
      [] shape = "val1" -> <<DiskEntry(<<1>>, <<1>>, id)>>
      [] shape = "val2" -> <<DiskEntry(<<2>>, <<1>>, id)>>
      [] shape = "tomb1val2" ->
            <<DiskEntry(<<1>>, <<>>, id), DiskEntry(<<2>>, <<1>>, id)>>
      [] shape = "val1val2" ->
            <<DiskEntry(<<1>>, <<1>>, id), DiskEntry(<<2>>, <<1>>, id)>>

WindowConfigs ==
    [max_log_length : {0}, max_key_size : {1}, max_value_size : {1},
     merge_window : {0, 1, 2, 3}, merge_ratio : {1, 2, 3}]

(* Lsm::open_with_options on a directory with runs, an empty WAL and no    *)
(* LOCK file, once the worker has taken the HeartBeat: the runs found are  *)
(* registered, the key directory is built from them, and the worker knows  *)
(* their sizes.                                                            *)
InitCompact ==
    /\ config \in WindowConfigs
    /\ \E ids \in SUBSET (1..MaxRuns) :
         \E sh \in [ids -> RunShapes] :
            /\ data = [id \in ids |-> RunOf(id, sh[id])]
            /\ hint = [id \in ids |-> HintsFor(<<>>, RunOf(id, sh[id]))]
            /\ sstables = ids
            /\ keydir = BuildKeydir(EmptyMap, ids, data, hint)
            /\ wsstables = [id \in ids |-> FileSize(data[id])]
    /\ now = 1
    /\ up = TRUE
    /\ downBy = "none"
    /\ openRes = "ok"
    /\ epc = "idle"
    /\ memtable = EmptyMap
    /\ wal = <<>>
    /\ walSynced = 0
    /\ dirty_bytes = 0
    /\ flushRes = NoFlush
    /\ lockfile = TRUE
    /\ dataTmp = EmptyMap
    /\ hintTmp = EmptyMap
    /\ inbox = <<>>
    /\ wpc = "maintain"
    /\ wwindow = <<>>
    /\ wpos = <<>>
    /\ camIdx = 0
    /\ hist = <<>>
    /\ acked = 0
    /\ lost = {}
    /\ budget = 0
    /\ flushedInMerge = {}
    /\ crashes = 0
    /\ failures = 0
    /\ walBad = {}
    /\ dataBad = {}
    /\ atDrop = NoSnapshot
    /\ kdPuts = [k \in Keys |-> <<>>]
    /\ lastOp = Op("open", <<>>, <<>>, "ok")

NextCompact ==
    \/ WorkerMaintain
    \/ WorkerMergeStep
    \/ CamRenameData
    \/ CamRenameHint
    \/ CamRemove
    \/ CamFinish

SpecCompact == InitCompact /\ [][NextCompact]_vars

(* compact_and_merge returning an error and the worker's map updated all   *)
(* the same.                                                               *)
CamFailUpdatesMap ==
    /\ up
    /\ wpc \in {"cam_rename_data"} \cup CamStates
    /\ failures < MaxFailures
    /\ failures' = failures + 1
    /\ wpc' = "recv"
    /\ wsstables' = AfterCompaction(wsstables, wwindow,
                                    FileSize(FileOrEmpty(data, SeqMax(wwindow))))
    /\ wwindow' = <<>>
    /\ wpos' = <<>>
    /\ camIdx' = 0
    /\ UNCHANGED <<inbox, histVars, lastOp, engineVars, storeVars, tmpVars>>
    /\ UNCHANGED <<config, up, downBy, openRes, lockfile, crashes, walBad,
                   dataBad>>

(* compact_and_merge returns an error: a rename, a removal or the opening  *)
(* of the merged run fails.  What was done stays done, the lock is         *)
(* released, compact_sstable_run returns the error before it touches the   *)
(* worker's map, and tick logs it and goes back to recv.                   *)
CamFail ==
    /\ up
    /\ wpc \in {"cam_rename_data"} \cup CamStates
    /\ failures < MaxFailures
    /\ failures' = failures + 1
    /\ wpc' = "recv"
    /\ wsstables' = wsstables
    /\ wwindow' = <<>>
    /\ wpos' = <<>>
    /\ camIdx' = 0
    /\ UNCHANGED <<inbox, histVars, lastOp, engineVars, storeVars, tmpVars>>
    /\ UNCHANGED <<config, up, downBy, openRes, lockfile, crashes, walBad,
                   dataBad>>

NextCompactFail == NextCompact \/ CamFail

SpecCompactFail == InitCompact /\ [][NextCompactFail]_vars

(* The engine on a directory with runs is dropped while the worker runs,   *)
(* and the directory is opened again.                                      *)
NextReopen == WorkerStep \/ DropSend \/ DropReturn \/ WorkerExit \/ Open

SpecReopen == InitCompact /\ [][NextReopen]_vars

----------------------------------------------------------------------------
(* The key directory alone: a caller puts entries and removes keys.        *)

MaxPuts == 3
KeydirFileIds == {1, 2}
KeydirTimestamps == {1, 2}

KeydirEntries ==
    {KeydirEntry(id, 0, HEADER_SZ + 1, t) :
        id \in KeydirFileIds, t \in KeydirTimestamps}

notKeydirVars ==
    <<engineVars, tmpVars, workerVars, procVars, sstables, data, hint, now,
      hist, acked, lost, budget, flushedInMerge, atDrop, lastOp>>

KeydirPutCall ==
    \E k \in Keys, e \in KeydirEntries :
        /\ Len(kdPuts[k]) < MaxPuts
        /\ keydir' = KeydirPut(keydir, k, e)
        /\ kdPuts' = [kdPuts EXCEPT ![k] = Append(@, e)]
        /\ UNCHANGED notKeydirVars

KeydirRemoveCall ==
    \E k \in Keys :
        /\ keydir' = KeydirRemove(keydir, k)
        /\ kdPuts' = [kdPuts EXCEPT ![k] = <<>>]
        /\ UNCHANGED notKeydirVars

InitKeydir == InitCore /\ budget = 0 /\ config.max_log_length = 0

NextKeydir == KeydirPutCall \/ KeydirRemoveCall

SpecKeydir == InitKeydir /\ [][NextKeydir]_vars

----------------------------------------------------------------------------
(* What the callers wrote. *)

(* The surviving writes to key k, as indexes of hist. *)
WritesTo(k) == {i \in Surviving : hist[i].key = k}

(* The value get(k) is to return: that of the last surviving write to k,   *)
(* absent when there is none or when it wrote the empty value.             *)
Truth(k) ==
    IF WritesTo(k) = {} THEN NoneV
    ELSE LET v == hist[Max(WritesTo(k))].value
         IN IF v = <<>> THEN NoneV ELSE Some(v)

Quiet == up /\ epc = "idle" /\ LockFree

SeqToSet(s) == {s[i] : i \in 1..Len(s)}

NoDuplicates(s) == \A i, j \in 1..Len(s) : i # j => s[i] # s[j]

----------------------------------------------------------------------------
(* C1: with no crash and no compaction running, after each put or delete   *)
(* (automatic flushes included) get(k) returns the value of the most       *)
(* recent put(k, v) with non-empty v, and absent when k was never written  *)
(* or when its most recent operation was delete(k) or put(k, empty).       *)
C1_GetReturnsLastPut ==
    (up /\ epc = "idle") => \A k \in Keys : Get(k) = Truth(k)

(* A key overwritten and read back from a run, another deleted and flushed *)
C1_Witness ==
    /\ up /\ epc = "idle"
    /\ \E k \in Keys :
         /\ Cardinality(WritesTo(k)) >= 2
         /\ k \notin DOMAIN memtable
         /\ k \in DOMAIN keydir
         /\ Get(k) = Some(hist[Max(WritesTo(k))].value)
    /\ \E j \in Keys :
         /\ WritesTo(j) # {}
         /\ hist[Max(WritesTo(j))].value = <<>>
         /\ j \notin DOMAIN memtable
         /\ Get(j) = NoneV

----------------------------------------------------------------------------
(* The writes to k carry strictly increasing timestamps. *)
Increasing(k) ==
    \A i, j \in WritesTo(k) : i < j => hist[i].ts < hist[j].ts

(* C2: for a key written at least twice, with timestamps t1 < t2, after    *)
(* any flushes and background compactions interleaved with the writes,     *)
(* get(k) returns the value written last, or absent when that value is     *)
(* empty.                                                                  *)
C2_LastWriteWins ==
    Quiet =>
        \A k \in Keys :
            (Cardinality(WritesTo(k)) >= 2 /\ Increasing(k))
                => Get(k) = Truth(k)

(* The steps of compact_and_merge, from the taking of the lock on. *)
InCompactAndMerge ==
    \/ wpc = "cam_rename_data" /\ wpc' = "cam_rename_hint"
    \/ wpc \in CamStates

(* C3: when a run newer than the window was flushed while the worker was   *)
(* merging, compact_and_merge leaves every key-directory entry that points *)
(* into that run as it is, and the store's answer for that key as it was   *)
(* before the lock was taken.                                              *)
C3_NewerRunSurvivesMerge ==
    [][InCompactAndMerge =>
          \A k \in DOMAIN keydir :
              (/\ keydir[k].file_id \in flushedInMerge
               /\ keydir[k].file_id > SeqMax(wwindow))
                  => /\ k \in DOMAIN keydir'
                     /\ keydir'[k] = keydir[k]
                     /\ StoreGet(k)' = StoreGet(k)]_vars

----------------------------------------------------------------------------
(* Every write to k, dropped by a crash or not. *)
AllWritesTo(k) == {i \in 1..Len(hist) : hist[i].key = k}

Reopened == lastOp.op = "open" /\ crashes > 0

(* C4: after a crash the next open of the directory succeeds, and after it *)
(* get(k) returns the last value put for k when that put returned before   *)
(* the last successful sync of the WAL.                                    *)
C4_ReopenAfterCrash ==
    Reopened =>
        /\ lastOp.ret = "ok"
        /\ \A k \in Keys :
              (AllWritesTo(k) # {} /\ Max(AllWritesTo(k)) <= acked)
                  => Get(k) = LET v == hist[Max(AllWritesTo(k))].value
                              IN IF v = <<>> THEN NoneV ELSE Some(v)

(* The record a key-directory entry points at carries the entry's key. *)
Resolves(k) ==
    /\ keydir[k].file_id \in DOMAIN data
    /\ LET r == ReadAt(data[keydir[k].file_id], keydir[k].offset)
       IN r # NoneV /\ r[1].key = k

(* C5: after a crash at any point of a compaction, a reopen with the LOCK  *)
(* file absent gives for every key the value get(k) had before, and every  *)
(* key-directory entry points at a record of its own key.                  *)
C5_CrashInCompaction ==
    (Reopened /\ downBy = "crash_compacting" /\ lastOp.ret = "ok") =>
        /\ \A k \in DOMAIN keydir : Resolves(k)
        /\ \A k \in Keys : Get(k) = Truth(k)

----------------------------------------------------------------------------
(* C6: contains(k) is false, and get(k) absent, whenever the memtable      *)
(* holds the empty value for k, whether the key directory holds k or not.  *)
C6_ContainsSeesTombstone ==
    (up /\ epc = "idle") =>
        \A k \in Keys :
            (k \in DOMAIN memtable /\ memtable[k].value = <<>>)
                => (~Contains(k) /\ Get(k) = NoneV)

(* The keys whose last operation was a put of a non-empty value. *)
LiveKeys == {k \in Keys : Truth(k) # NoneV}

(* C7: the set of the keys list_keys() returns is the set of the keys      *)
(* whose last operation was a put of a non-empty value, whichever          *)
(* binary_search the build has.                                            *)
C7_ListKeysIsLiveSet ==
    (up /\ epc = "idle") =>
        \A impl \in SearchImpls : SeqToSet(ListKeys(impl)) = LiveKeys

(* C8: list_keys() returns no key twice. *)
C8_ListKeysNoDuplicates ==
    (up /\ epc = "idle") =>
        \A impl \in SearchImpls : NoDuplicates(ListKeys(impl))

Oversize(k, v) ==
    Len(k) > config.max_key_size \/ Len(v) > config.max_value_size

(* C9: a put of a key longer than max_key_size or of a value longer than   *)
(* max_value_size returns the matching error and leaves the WAL, the       *)
(* memtable, dirty_bytes and the runs as they were.                        *)
C9_OversizePutRejected ==
    [][\A k \in Keys \cup {LongKey}, v \in Values \cup {LongValue} :
          (Oversize(k, v) /\ Put(k, v)) =>
              /\ lastOp'.ret = IF Len(k) > config.max_key_size
                               THEN "KeyIsTooLarge" ELSE "ValueIsTooLarge"
              /\ UNCHANGED <<wal, memtable, dirty_bytes, sstables,
                             data>>]_vars

(* What delete(k) is to do: nothing when k is in neither the memtable nor  *)
(* the key directory, else what put(k, empty) does.                        *)
DeleteFrame(k) ==
    IF k \notin DOMAIN memtable /\ k \notin DOMAIN keydir
    THEN /\ lastOp'.ret = "ok"
         /\ UNCHANGED <<wal, memtable, dirty_bytes, keydir, sstables, data,
                        hint, hist, epc>>
    ELSE \E t \in {now, now + 1} :
            LET e == [key |-> k, value |-> <<>>, ts |-> t]
            IN /\ wal' = Append(wal, e)
               /\ memtable' = MapPut(memtable, k, e)
               /\ dirty_bytes' = dirty_bytes + HEADER_SZ + Len(k)
               /\ epc' = IF dirty_bytes' > config.max_log_length
                         THEN "flush_sync" ELSE "idle"
               /\ UNCHANGED <<keydir, sstables, data, hint>>

(* C10: delete(k) of a key that is in neither the memtable nor the key     *)
(* directory succeeds and changes nothing; of any other key it is          *)
(* put(k, empty).                                                          *)
C10_DeleteFrame ==
    [][\A k \in Keys : Delete(k) => DeleteFrame(k)]_vars

(* A delete that did nothing, of a key written and deleted before. *)
C10_Witness ==
    /\ up /\ epc = "idle"
    /\ lastOp.op = "delete" /\ lastOp.ret = "ok"
    /\ lastOp.key \notin DOMAIN memtable
    /\ lastOp.key \notin DOMAIN keydir
    /\ Len(hist) >= 2
    /\ hist[Len(hist)].key = lastOp.key
    /\ hist[Len(hist)].value = <<>>
    /\ hist[Len(hist) - 1].key = lastOp.key
    /\ hist[Len(hist) - 1].value # <<>>

----------------------------------------------------------------------------
(* C11: an open of a directory that an open engine holds fails with        *)
(* already-locked and changes no file; an open after the owner has shut    *)
(* down cleanly finds no LOCK file and succeeds.                           *)
C11_OneOwner ==
    [][/\ OpenSecond =>
            /\ lastOp'.ret = "AlreadyLocked"
            /\ UNCHANGED <<lockfile, wal, data, hint, dataTmp, hintTmp>>
       /\ (Open /\ downBy = "drop") =>
            /\ ~lockfile
            /\ lastOp'.ret = "ok"]_vars

----------------------------------------------------------------------------
(* C12: when the storage manager's flush fails inside put, put returns the *)
(* error, the memtable is what it was before the flush was attempted, the  *)
(* WAL is not truncated, dirty_bytes is unchanged, and get(k) is for every *)
(* key what it was.                                                        *)
C12_FailedFlushRestores ==
    [][FlushSetFail =>
          /\ lastOp'.ret = "Err"
          /\ epc' = "idle"
          /\ memtable' = memtable
          /\ wal' = wal
          /\ dirty_bytes' = dirty_bytes
          /\ \A k \in Keys : Get(k)' = Get(k)]_vars

(* A put has returned the error of a flush that had already written a      *)
(* record and moved its key's directory entry to the unregistered run.     *)
C12_Witness ==
    /\ up /\ epc = "idle"
    /\ lastOp.ret = "Err"
    /\ \E k \in DOMAIN memtable :
         /\ k \in DOMAIN keydir
         /\ keydir[k].file_id \notin sstables
         /\ Get(k) = Some(memtable[k].value)

----------------------------------------------------------------------------
(* A drop that has sent Stop returns. *)
DropTerminates == (epc = "drop_wait") ~> ~up

(* The worker handles Stop after every message queued before it. *)
StopIsLast ==
    (up /\ wpc = "stopped") => inbox = <<>>

(* C13: drop sends Stop and returns once the worker has acknowledged it,   *)
(* or at once when the channel is broken; once drop has returned, and      *)
(* until the directory is opened again, no compaction step is taken and no *)
(* file of the directory is created, changed or removed.                   *)
C13_QuietAfterDrop ==
    [][(~up /\ ~up' /\ downBy = "drop") =>
          /\ ~ENABLED WorkerStep
          /\ UNCHANGED <<wal, data, hint, dataTmp, hintTmp, lockfile>>]_vars

----------------------------------------------------------------------------
(* The length of the longest prefix of the WAL whose records all pass the  *)
(* checksum.                                                               *)
GoodPrefix ==
    Max({n \in 0..Len(wal) : \A i \in 1..n : i \notin walBad})

(* C14: a successful open keeps exactly the longest prefix of WAL records  *)
(* that pass the checksum: the WAL is cut to it, the memtable holds for    *)
(* each key the last record of the prefix, dirty_bytes is its byte length, *)
(* and no failing record stays in the file before what later puts append.  *)
C14_WalRecovery ==
    [][(Open /\ ~lockfile) =>
          LET g == GoodPrefix
              last(k) == Max({i \in 1..g : wal[i].key = k})
          IN /\ wal' = SubSeq(wal, 1, g)
             /\ walBad' = {}
             /\ DOMAIN memtable' = {wal[i].key : i \in 1..g}
             /\ \A k \in DOMAIN memtable' : memtable'[k] = wal[last(k)]
             /\ dirty_bytes' = FileSize(SubSeq(wal, 1, g))
             /\ \A k \in Keys : Get(k)' = Truth(k)']_vars

(* A second recovery has brought back a record that was appended after a   *)
(* first recovery had discarded two.                                       *)
C14_Witness ==
    /\ up /\ lastOp = Op("open", <<>>, <<>>, "ok")
    /\ crashes = 2
    /\ Cardinality(lost) >= 2
    /\ wal # <<>>
    /\ Max(Surviving) > Max(lost)
    /\ wal[Len(wal)] = hist[Max(Surviving)]

----------------------------------------------------------------------------
(* The points of a flush after the fsync of the WAL. *)
FlushPoints == {"flush_set", "flush_send", "flush_trunc"}

(* Record i of hist is in the synced part of the WAL or in a registered    *)
(* run.                                                                    *)
Held(i) ==
    \/ \E j \in 1..walSynced : wal[j] = hist[i]
    \/ \E id \in sstables :
          id \in DOMAIN data /\ \E j \in 1..Len(data[id]) : data[id][j] = hist[i]

(* At a point of a flush the last record written to each key is held. *)
FlushDurable ==
    (up /\ epc \in FlushPoints) =>
        \A i \in 1..Len(hist) : i = Max(AllWritesTo(hist[i].key)) => Held(i)

(* Every run the worker has been told of, or is being told of, is          *)
(* registered or has since been compacted away by the worker itself.       *)
NewRunMessage(id) ==
    \E i \in 1..Len(inbox) : inbox[i].type = "NewSSTable" /\ inbox[i].id = id

----------------------------------------------------------------------------
(* The records of the inputs of the merge in progress. *)
InputRecords == UNION {SeqToSet(data[wwindow[i]]) : i \in 1..Len(wwindow)}

(* Every input of the merge is sorted by key with unique keys. *)
InputsSorted ==
    \A i \in 1..Len(wwindow) :
        \A a, b \in 1..Len(data[wwindow[i]]) :
            a < b => KeyLess(data[wwindow[i]][a].key, data[wwindow[i]][b].key)

(* out is the merge of the inputs: ascending keys, one record for each key *)
(* of the inputs, the one with the largest timestamp.                      *)
MergedRight(out) ==
    /\ \A a, b \in 1..Len(out) : a < b => KeyLess(out[a].key, out[b].key)
    /\ {out[a].key : a \in 1..Len(out)} = {r.key : r \in InputRecords}
    /\ \A a \in 1..Len(out) :
          /\ out[a] \in InputRecords
          /\ \A r \in InputRecords : r.key = out[a].key => r.ts <= out[a].ts

(* C17: for inputs sorted by key with unique keys the merge iterator ends, *)
(* and what it has yielded has strictly ascending keys, one record for     *)
(* each key of the inputs, the record of the largest timestamp.            *)
C17_MergeIterator ==
    [][(WorkerMergeStep /\ InputsSorted) =>
          /\ MergeNext(wwindow, wpos).kind # "panic"
          /\ wpc' = "cam_rename_data" => MergedRight(dataTmp[SeqMax(wwindow)])
      ]_vars

(* Two inputs of the merge in progress hold records of one key with equal  *)
(* timestamps.                                                             *)
EqualTimestamps(k) ==
    \E i, j \in 1..Len(wwindow) :
        /\ i < j
        /\ \E r \in SeqToSet(data[wwindow[i]]), q \in SeqToSet(data[wwindow[j]]) :
              r.key = k /\ q.key = k /\ r.ts = q.ts

(* The record of k in the input of the highest id that has one. *)
LatestInput(k) ==
    LET has == {i \in 1..Len(wwindow) :
                  \E r \in SeqToSet(data[wwindow[i]]) : r.key = k}
        i == Max(has)
    IN CHOOSE r \in SeqToSet(data[wwindow[i]]) : r.key = k

(* C18: when inputs of a merge hold records of one key with equal          *)
(* timestamps the merge completes and the merged run holds the record of   *)
(* the input of the higher id.                                             *)
C18_EqualTimestampsMerge ==
    [][(WorkerMergeStep /\ \E k \in Keys : EqualTimestamps(k)) =>
          /\ wpc' # "dead"
          /\ wpc' = "cam_rename_data" =>
                \A k \in Keys : EqualTimestamps(k) =>
                    LatestInput(k) \in SeqToSet(dataTmp[SeqMax(wwindow)])
      ]_vars

(* The merge iterator where no two inputs hold records of one key with     *)
(* equal timestamps.                                                       *)
MergeOfDistinctTimestamps ==
    [][(WorkerMergeStep /\ InputsSorted /\ \A k \in Keys : ~EqualTimestamps(k)) =>
          /\ MergeNext(wwindow, wpos).kind # "panic"
          /\ wpc' = "cam_rename_data" => MergedRight(dataTmp[SeqMax(wwindow)])
      ]_vars

----------------------------------------------------------------------------
(* C16: a flush creates the run max(registered ids) + 1, or 1 when no run  *)
(* is registered, and that id is never the id of a registered run, of an   *)
(* existing data file, or of a compaction output that is being written.    *)
C16_FreshRunId ==
    [][FlushSet =>
          /\ flushRes'.id = (IF sstables = {} THEN 1 ELSE Max(sstables) + 1)
          /\ sstables' = sstables \cup {flushRes'.id}
          /\ flushRes'.id \notin sstables
          /\ flushRes'.id \notin DOMAIN data
          /\ flushRes'.id \notin DOMAIN dataTmp]_vars

----------------------------------------------------------------------------
(* The record of key k that wins among the inputs of the merge. *)
Winner(k) ==
    CHOOSE r \in InputRecords :
        r.key = k /\ \A q \in InputRecords : q.key = k => q.ts <= r.ts

(* The hint file hs has a tombstone's hint record for key k. *)
HintedTombstone(hs, k) ==
    \E a \in 1..Len(hs) : hs[a].key = k /\ hs[a].value_sz = 0

(* No run newer than w has a record of key k. *)
NothingNewer(w, k) ==
    \A id \in DOMAIN data : id > w => \A r \in SeqToSet(data[id]) : r.key # k

(* C19: when the winning record of a key among the inputs of a compaction  *)
(* is a tombstone, the merged run and its hint file hold that tombstone;   *)
(* they are installed as they were written, and a key directory rebuilt    *)
(* from the files after the compaction has no entry for the key, whatever  *)
(* the runs older than the window hold.                                    *)
C19_TombstonesKept ==
    [][/\ (WorkerMergeStep /\ wpc' = "cam_rename_data") =>
            \A k \in {r.key : r \in InputRecords} :
                Winner(k).value = <<>> =>
                    /\ Winner(k) \in SeqToSet(dataTmp[SeqMax(wwindow)])
                    /\ HintedTombstone(hintTmp[SeqMax(wwindow)], k)
       /\ CamRenameData => data'[SeqMax(wwindow)] = dataTmp[SeqMax(wwindow)]
       /\ CamRenameHint => hint'[SeqMax(wwindow)] = hintTmp[SeqMax(wwindow)]
       /\ CamFinish =>
            \A r \in SeqToSet(data'[SeqMax(wwindow)]) :
                (r.value = <<>> /\ NothingNewer(SeqMax(wwindow), r.key)) =>
                    /\ HintedTombstone(hint'[SeqMax(wwindow)], r.key)
                    /\ r.key \notin
                         DOMAIN BuildKeydir(EmptyMap, DOMAIN data', data', hint')
                    /\ r.key \notin DOMAIN keydir'
      ]_vars

(* A compaction has installed a merged run with a tombstone of key 1 while *)
(* a run older than the window holds a value of key 1.                     *)
C19_Witness ==
    /\ wpc = "cam_finish"
    /\ \E r \in SeqToSet(data[SeqMax(wwindow)]) : r.key = <<1>> /\ r.value = <<>>
    /\ \E id \in sstables :
         /\ id < wwindow[1]
         /\ \E r \in SeqToSet(data[id]) : r.key = <<1>> /\ r.value # <<>>
    /\ <<1>> \notin DOMAIN BuildKeydir(EmptyMap, DOMAIN data, data, hint)

----------------------------------------------------------------------------
(* W of the window policy. *)
PolicyW == Max({config.merge_window, 2})

(* The runs the worker knows, in ascending id order. *)
Known == SortIds(DOMAIN wsstables)

(* Every run after the first of the window at index s has a size that,     *)
(* multiplied by merge_ratio, exceeds the size of the first.               *)
Qualifies(s) ==
    \A j \in 1..(PolicyW - 1) :
        wsstables[Known[s + j]] * config.merge_ratio > wsstables[Known[s]]

(* The first window that qualifies, or <<>>. *)
FirstWindow ==
    LET q == {s \in 1..(Len(Known) - PolicyW + 1) : Qualifies(s)}
    IN IF q = {} THEN <<>>
       ELSE LET s == CHOOSE x \in q : \A y \in q : x <= y
            IN SubSeq(Known, s, s + PolicyW - 1)

----------------------------------------------------------------------------
(* The worker is evaluating maintenance or is inside a compaction. *)
Maintaining == {"maintain"} \cup Compacting

(* C21: the worker evaluates maintenance only after a message it has       *)
(* received (the HeartBeat of open included): a NewSSTable message is      *)
(* followed by one evaluation, which starts at most one compaction and     *)
(* then goes back to waiting, and a Stop message is followed by none.      *)
C21_MaintenancePerMessage ==
    [][/\ (wpc' = "maintain" /\ wpc # "maintain") =>
            \/ WorkerRecv /\ Head(inbox).type # "Stop"
            \/ Open /\ up'
       /\ WorkerMaintain => (wpc = "maintain" /\ wpc' \in {"recv", "merge"})
       /\ (wpc = "maintain" /\ wpc' # "maintain" /\ up') => WorkerMaintain
       /\ (wpc \in Compacting /\ wpc' \notin Compacting) =>
            wpc' \in {"recv", "dead", "down"}
       /\ (WorkerRecv /\ Head(inbox).type = "Stop") => wpc' = "stopped"
       /\ (wpc \in {"stopped", "exited"} /\ wpc' \in Maintaining) => Open
      ]_vars

(* Stop has been received after a message whose maintenance compacted      *)
(* runs 1 and 2 into run 2.                                                *)
C21_Witness ==
    /\ wpc = "stopped"
    /\ DOMAIN wsstables = {2}
    /\ sstables = {2}
    /\ 1 \notin DOMAIN data
    /\ Len(data[2]) >= 1

----------------------------------------------------------------------------
(* The window maintenance selects has a data tmp file left in the          *)
(* directory by a compaction that a crash interrupted.                     *)
LeftoverSelected ==
    /\ up
    /\ crashes > 0
    /\ wpc \in {"recv", "maintain"}
    /\ RunToCompact # <<>>
    /\ SeqMax(RunToCompact) \in DOMAIN dataTmp

(* C22: after a crash has left the data tmp file of an unfinished          *)
(* compaction and the directory is reopened, the next maintenance that     *)
(* selects the window completes or overwrites the tmp file: it starts the  *)
(* compaction of the window, or the tmp file is gone after it.             *)
C22_LeftoverTmpCompleted ==
    [][(WorkerMaintain /\ LeftoverSelected) =>
          \/ wpc' = "merge"
          \/ SeqMax(RunToCompact) \notin DOMAIN dataTmp']_vars

(* Once the selected window has a leftover data tmp file it keeps it for   *)
(* as long as the process lives, whatever messages the worker receives.    *)
LeftoverBlocksForever ==
    [][(LeftoverSelected /\ up') =>
          /\ LeftoverSelected'
          /\ RunToCompact' = RunToCompact
          /\ UNCHANGED <<dataTmp, hintTmp>>]_vars

----------------------------------------------------------------------------
(* The files of run id are in the directory as they were. *)
FilesKept(id) ==
    /\ id \in DOMAIN data => id \in DOMAIN data'
    /\ id \in DOMAIN hint => id \in DOMAIN hint'

(* C23: in a compaction an input's data or hint file is deleted only after *)
(* both tmp files have been renamed, the winner's files are never deleted, *)
(* the worker drops the other inputs from its own map only when            *)
(* compact_and_merge has succeeded, and a compact_and_merge that fails     *)
(* leaves the worker's map as it was.                                      *)
C23_CompactionOrder ==
    [][/\ \A id \in DOMAIN data \cup DOMAIN hint :
            ~FilesKept(id) =>
                /\ CamRemove
                /\ id = wwindow[camIdx]
                /\ id # SeqMax(wwindow)
                /\ SeqMax(wwindow) \notin DOMAIN dataTmp \cup DOMAIN hintTmp
                /\ FilesKept(SeqMax(wwindow))
       /\ wpc \in Compacting => FilesKept(SeqMax(wwindow))
       /\ (/\ wpc \in Compacting
           /\ up'
           /\ \E id \in DOMAIN wsstables : id \notin DOMAIN wsstables') =>
            /\ CamFinish
            /\ \A id \in DOMAIN wsstables \ DOMAIN wsstables' :
                  id # SeqMax(wwindow) /\ id \notin sstables'
       /\ CamFail => wsstables' = wsstables
      ]_vars

(* compact_and_merge has failed after it removed an input: the worker      *)
(* still knows the run that is gone.                                       *)
C23_Witness ==
    /\ wpc = "recv"
    /\ failures = 1
    /\ \E id \in DOMAIN wsstables : id \notin DOMAIN data /\ id \notin sstables

----------------------------------------------------------------------------
(* The key-directory entry of k names a registered run whose file exists   *)
(* and, in it, a record of key k with the entry's size and a value.        *)
EntrySound(k) ==
    /\ keydir[k].file_id \in sstables
    /\ keydir[k].file_id \in DOMAIN data
    /\ LET r == ReadAt(data[keydir[k].file_id], keydir[k].offset)
       IN /\ r # NoneV
          /\ r[1].key = k
          /\ EntrySize(r[1]) = keydir[k].size
          /\ r[1].value # <<>>

(* C24: whenever the storage lock is free, every key-directory entry names *)
(* a registered run whose file exists, and the record at its offset has    *)
(* the directory key, the entry's size and a non-empty value.              *)
C24_KeydirSound ==
    (up /\ LockFree) => \A k \in DOMAIN keydir : EntrySound(k)

----------------------------------------------------------------------------
(* The runs that hold a record of key k. *)
RunsWith(k) == {id \in DOMAIN data : \E r \in SeqToSet(data[id]) : r.key = k}

(* The value of k's record in the run of the highest id that holds k:      *)
(* absent when no run holds k or when that record is a tombstone.          *)
HighestRunValue(k) ==
    IF RunsWith(k) = {} THEN NoneV
    ELSE LET r == CHOOSE q \in SeqToSet(data[Max(RunsWith(k))]) : q.key = k
         IN IF r.value = <<>> THEN NoneV ELSE Some(r.value)

(* An open that succeeds on the directory of an engine that was dropped. *)
ReopenAfterDrop == Open /\ up' /\ downBy = "drop" /\ atDrop # NoSnapshot

(* C25: after a clean shutdown and a reopen, get(k) of every key and       *)
(* list_keys() are what they were when the shutdown began, and every key   *)
(* resolves to its record in the run of the highest id that holds it, or   *)
(* is absent when that record is a tombstone.                              *)
C25_ReopenSameAnswers ==
    [][ReopenAfterDrop =>
          /\ \A k \in Keys : Get(k)' = atDrop.get[k]
          /\ \A impl \in SearchImpls : ListKeys(impl)' = atDrop.keys[impl]
          /\ \A k \in Keys : memtable' = EmptyMap => Get(k)' = HighestRunValue(k)'
      ]_vars

(* The key directory rebuilt by a reopen resolves every key to its record  *)
(* in the run of the highest id that holds it.                             *)
RebuildResolvesHighest ==
    [][ReopenAfterDrop =>
          \A k \in Keys : memtable' = EmptyMap => Get(k)' = HighestRunValue(k)'
      ]_vars

----------------------------------------------------------------------------
(* The runs with a torn tail after at least one good record. *)
TornRuns == {id \in dataBad : id \in DOMAIN data /\ Len(data[id]) >= 2}

(* C26: when a run has a torn tail at open, after at least one good        *)
(* record, the open succeeds, no key-directory entry points at or beyond   *)
(* the failing record, and the run is truncated to its last good offset.   *)
C26_TornRunTruncated ==
    [][(Open /\ ~lockfile /\ TornRuns # {}) =>
          /\ up'
          /\ \A id \in TornRuns :
                /\ data'[id] = SubSeq(data[id], 1, Len(data[id]) - 1)
                /\ id \notin dataBad'
                /\ id \in sstables'
                /\ \A k \in DOMAIN keydir' :
                      keydir'[k].file_id = id =>
                          keydir'[k].offset < OffsetOf(data[id], Len(data[id]))
      ]_vars

(* After an open no key-directory entry points at a failing record. *)
NoEntryAtTornRecord ==
    up => \A k \in DOMAIN keydir :
             keydir[k].file_id \in dataBad =>
                 keydir[k].offset < OffsetOf(data[keydir[k].file_id],
                                             Len(data[keydir[k].file_id]))

----------------------------------------------------------------------------
(* The step by which drop completes. *)
DropCompletes == up /\ ~up' /\ downBy' = "drop"

(* C27: the WAL is synced at every flush boundary and on clean shutdown:   *)
(* when drop completes, every record of the WAL has been fsynced.          *)
C27_WalSyncedOnDrop ==
    [][/\ FlushSync => walSynced' = Len(wal')
       /\ DropCompletes => walSynced' = Len(wal')]_vars

(* The WAL is synced at every flush boundary. *)
WalSyncedOnFlush == [][FlushSync => walSynced' = Len(wal')]_vars

----------------------------------------------------------------------------
(* The memtable holds, for every key of the WAL, the last record the WAL   *)
(* has for it, and nothing else.                                           *)
MemtableIsWal ==
    /\ DOMAIN memtable = {wal[i].key : i \in 1..Len(wal)}
    /\ \A k \in DOMAIN memtable :
          memtable[k] = wal[Max({i \in 1..Len(wal) : wal[i].key = k})]

----------------------------------------------------------------------------
(* The hint file of run id has one hint record for each record of the run, *)
(* in the same order, with the record's offset and size.                   *)
HintMatches(hintFiles, dataFiles, id) ==
    /\ id \in DOMAIN hintFiles
    /\ hintFiles[id] = HintsFor(<<>>, dataFiles[id])

(* C29: after every successful flush and every successful compaction the   *)
(* hint file of the run written holds exactly one hint record for each     *)
(* data record of the run, in the same order, with its offset and size.    *)
C29_HintPerRecord ==
    [][/\ FlushSet => HintMatches(hint', data', flushRes'.id)
       /\ CamFinish => HintMatches(hint', data', SeqMax(wwindow))]_vars

(* C30: every registered run holds its records in strictly ascending key   *)
(* order, each key at most once.                                           *)
C30_RunsSorted ==
    up => \A id \in sstables :
             id \in DOMAIN data =>
                 \A a, b \in 1..Len(data[id]) :
                     a < b => KeyLess(data[id][a].key, data[id][b].key)

(* The index in a sequence of entries of the one put wins: the largest     *)
(* timestamp, and among those the last.                                    *)
LatestPut(es) ==
    CHOOSE i \in 1..Len(es) :
        \A j \in 1..Len(es) :
            \/ es[j].timestamp < es[i].timestamp
            \/ es[j].timestamp = es[i].timestamp /\ j <= i

(* C31: after any sequence of puts on one key with no remove in between    *)
(* the stored entry is the one with the largest timestamp among those put, *)
(* and among the entries of that timestamp the one put last; a put of a    *)
(* smaller timestamp than the stored entry changes nothing.                *)
C31_KeydirPutLatest ==
    \A k \in Keys :
        IF kdPuts[k] = <<>> THEN k \notin DOMAIN keydir
        ELSE /\ k \in DOMAIN keydir
             /\ keydir[k] = kdPuts[k][LatestPut(kdPuts[k])]

C31_Witness ==
    \E k \in Keys :
        /\ Len(kdPuts[k]) = 3
        /\ kdPuts[k][1].timestamp = kdPuts[k][2].timestamp
        /\ kdPuts[k][1] # kdPuts[k][2]
        /\ kdPuts[k][3].timestamp < kdPuts[k][2].timestamp
        /\ keydir[k] = kdPuts[k][2]

(* The engine is between two calls and the last call returned success. *)
Returned(o) == up /\ epc = "idle" /\ lastOp.op = o /\ lastOp.ret = "ok"

(* C32: after open and after every put or delete that returned success    *)
(* dirty_bytes is the byte length of the WAL, and after every put that     *)
(* returned success dirty_bytes is at most max_log_length.                 *)
C32_DirtyBytesIsWalLength ==
    /\ (Returned("open") \/ Returned("put") \/ Returned("delete"))
          => dirty_bytes = FileSize(wal)
    /\ Returned("put") => dirty_bytes <= config.max_log_length

(* C33: when the drop of an engine has completed the LOCK file is gone:    *)
(* the worker thread, which shares the storage manager and with it the     *)
(* lock file, does not hold it after it has acknowledged Stop.             *)
C33_LockGoneAfterDrop ==
    (~up /\ downBy = "drop") => ~lockfile

(* The worker thread is between two compactions: blocked in recv or about *)
(* to look for a window.                                                   *)
WorkerBetween == up /\ wpc \in {"recv", "maintain"}

(* The worker is blocked in recv on an empty channel, and the engine is    *)
(* not between the registration of a new run and the send of its message.  *)
WorkerIdle == up /\ wpc = "recv" /\ inbox = <<>> /\ epc # "flush_send"

(* C34: the worker's own map never names a run that the storage manager    *)
(* has not registered, and whenever the worker is idle with an empty inbox *)
(* the map has exactly the registered ids, each with the current size of   *)
(* its file.                                                               *)
C34_WorkerMapIsRegistry ==
    /\ WorkerBetween => DOMAIN wsstables \subseteq sstables
    /\ WorkerIdle =>
          /\ DOMAIN wsstables = sstables
          /\ \A id \in sstables :
                id \in DOMAIN data /\ wsstables[id] = FileSize(data[id])

(* C35: while the engine is open the worker thread ends only on a Stop     *)
(* message: no compaction, whatever its inputs hold, ends it, so the send  *)
(* of NewSSTable in a later flush never fails and never aborts a put.      *)
C35_WorkerStopsOnlyOnStop ==
    /\ up => wpc # "dead"
    /\ (up /\ wpc \in {"stopped", "exited"}) => epc = "drop_wait"
    /\ lastOp.ret # "panic"

====
